---- MODULE Spec2Model ----
(***************************************************************************)
(* Model of the L402 authentication gate of utils/l402_auth.py.            *)
(*                                                                         *)
(* Text (str) is a sequence of atomic pieces, so that startswith, split,   *)
(* rstrip and string formatting are computed piece by piece.  A request is *)
(* handled by one coroutine. It can be suspended where it awaits: at the   *)
(* call of the provider (client.post, client.get) and at the exit of the   *)
(* "async with httpx.AsyncClient()" block, where client.__aexit__ is       *)
(* awaited before create_invoice or verify_payment returns or raises.      *)
(* Every action runs the handler from one such point to the next.          *)
(***************************************************************************)
EXTENDS Integers, Sequences, FiniteSets, TLC

VARIABLES
    now,             \* datetime.utcnow(), in minutes
    invoices,        \* the provider's invoices, in creation order
    used_macaroons,  \* module-level set, l402_auth.py line 28
    reqs,            \* the request slots: one coroutine of l402_authentication each
    issued,          \* the challenges the clients have received so far
    received,        \* number of requests received so far
    noCredential,    \* number of those that carried no credential
    refused,         \* number of create_invoice calls that created no invoice
    nextId           \* source of fresh identifiers (uuid4)

vars == <<now, invoices, used_macaroons, reqs, issued, received, noCredential, refused,
          nextId>>

(***************************************************************************)
(* Bounds of the model.                                                    *)
(***************************************************************************)
MaxRequests == 3
MaxInFlight == 2
MaxClockSteps == 2
MaxInvoices == 2

(***************************************************************************)
(* Program constants.                                                      *)
(***************************************************************************)
amount == 1000
expiration_minutes == 30

SECRET_KEY == "MACAROON_SECRET_KEY"
OtherKey == "some-other-key"

ClockStep == expiration_minutes
MaxClock == MaxClockSteps * ClockStep

Slots == 1..MaxInFlight

(***************************************************************************)
(* Text helpers.                                                           *)
(***************************************************************************)
StartsWith(s, p) == Len(s) >= Len(p) /\ SubSeq(s, 1, Len(p)) = p

\* s.split(sep, 1)[1] for a one-piece separator that occurs in s
AfterFirst(s, sep) ==
    LET i == CHOOSE k \in 1..Len(s) : s[k] = sep /\ \A j \in 1..(k - 1) : s[j] # sep
    IN  SubSeq(s, i + 1, Len(s))

RECURSIVE RStrip(_, _)
RStrip(s, c) ==
    IF s # <<>> /\ s[Len(s)] = c THEN RStrip(SubSeq(s, 1, Len(s) - 1), c) ELSE s

RECURSIVE Join(_, _)
\* sep.join(items)
Join(items, sep) ==
    IF items = <<>> THEN <<>>
    ELSE IF Len(items) = 1 THEN items[1]
    ELSE items[1] \o <<sep>> \o Join(Tail(items), sep)

\* the clock values a timestamp of the model can denote
Instants == 0..(MaxClock + expiration_minutes + ClockStep)

\* datetime.isoformat() of the clock value t
IsoText == [t \in Instants |-> ToString(t)]
IsoFormat(t) == <<IsoText[t]>>

\* datetime.fromisoformat(s): the clock value, or ValueError
IsoValue == [x \in {IsoText[t] : t \in Instants} |-> CHOOSE t \in Instants : IsoText[t] = x]
IsIsoFormat(s) == Len(s) = 1 /\ s[1] \in DOMAIN IsoValue
FromIsoFormat(s) == IsoValue[s[1]]

(***************************************************************************)
(* pymacaroons: the signature chain, (de)serialization and the Verifier.   *)
(***************************************************************************)
NoSig == [key |-> "", chain |-> <<>>]

\* hmac over the running signature: injective in both arguments
HmacChain(sig, msg) == [key |-> sig.key, chain |-> Append(sig.chain, msg)]

\* Macaroon(location, identifier, key)
NewMacaroon(location, identifier, key) ==
    [location |-> location, identifier |-> identifier, caveats |-> <<>>,
     signature |-> HmacChain([key |-> key, chain |-> <<>>], identifier)]

add_first_party_caveat(m, cid) ==
    [m EXCEPT !.caveats = Append(@, cid), !.signature = HmacChain(@, cid)]

Packet(ptype, text, sig) == [ptype |-> ptype, text |-> text, sig |-> sig]

\* macaroon.serialize(): the packets location, identifier, cid..., signature
Serialize(m) ==
    <<Packet("location", m.location, NoSig), Packet("identifier", m.identifier, NoSig)>>
    \o [i \in 1..Len(m.caveats) |-> Packet("cid", m.caveats[i], NoSig)]
    \o <<Packet("signature", <<>>, m.signature)>>

\* Macaroon.deserialize accepts exactly the texts that are such a packet list
CanDeserialize(s) ==
    /\ Len(s) >= 3
    /\ s[1].ptype = "location"
    /\ s[2].ptype = "identifier"
    /\ s[Len(s)].ptype = "signature"
    /\ \A i \in 3..(Len(s) - 1) : s[i].ptype = "cid"

Deserialize(s) ==
    [location |-> s[1].text, identifier |-> s[2].text,
     caveats |-> [i \in 1..(Len(s) - 3) |-> s[i + 2].text],
     signature |-> s[Len(s)].sig]

RECURSIVE Mut_VerifyCaveatsUnmetEnter(_, _, _)
\* mutant: every caveat enters the signature, met by a predicate or not
Mut_VerifyCaveatsUnmetEnter(caveats, predicates, sig) ==
    IF caveats = <<>> THEN sig
    ELSE Mut_VerifyCaveatsUnmetEnter(Tail(caveats), predicates,
                                     HmacChain(sig, Head(caveats)))

RECURSIVE VerifyCaveats(_, _, _)
\* Verifier._verify_caveats: only a caveat that is met enters the signature
VerifyCaveats(caveats, predicates, sig) ==
    IF caveats = <<>> THEN sig
    ELSE VerifyCaveats(Tail(caveats), predicates,
                       IF Head(caveats) \in predicates THEN HmacChain(sig, Head(caveats))
                       ELSE sig)

\* mutant: the signature chain is compared, the key it starts from is not
Mut_VerifierVerifyAnyKey(predicates, m, key) ==
    VerifyCaveats(m.caveats, predicates,
                  HmacChain([key |-> key, chain |-> <<>>], m.identifier)).chain
        = m.signature.chain

\* verifier.verify(macaroon, key) does not raise
VerifierVerify(predicates, m, key) ==
    VerifyCaveats(m.caveats, predicates,
                  HmacChain([key |-> key, chain |-> <<>>], m.identifier)) = m.signature

(***************************************************************************)
(* Values of the program.                                                  *)
(***************************************************************************)
\* the path of the one route that main.py gates
ProtectedResource == <<"/protected-resource">>
Routes == {ProtectedResource}

\* request.url.path when l402_authentication gates a second route as well:
\* "/protected-resource" is a prefix and a suffix of the second path. These are
\* also the texts a client can write into a scope caveat.
Paths == {ProtectedResource, ProtectedResource \o ProtectedResource}

\* the payment_hash and payment_request the provider gives its n-th invoice
HashNames == <<"hash1", "hash2", "hash3", "hash4", "hash5", "hash6">>
RequestNames == <<"lnbc1", "lnbc2", "lnbc3", "lnbc4", "lnbc5", "lnbc6">>
ProviderHash(n) == <<HashNames[n]>>
ProviderRequest(n) == <<RequestNames[n]>>

\* str(uuid.uuid4())
Uuid(n) == <<"uuid", ToString(n)>>

\* an optional str: None, or a text
None == [found |-> FALSE, value |-> <<>>]
Some(text) == [found |-> TRUE, value |-> text]
\* Python's "not x" for an optional str
Falsy(x) == ~x.found \/ x.value = <<>>

\* the Authorization header: absent, or prefix followed by the token text
NoHeader == [present |-> FALSE, prefix |-> <<>>, body |-> <<>>]
Header(prefix, body) == [present |-> TRUE, prefix |-> prefix, body |-> body]
LSAT(body) == Header(<<"LSAT", " ">>, body)

NoHeaders == [present |-> FALSE, macaroon |-> <<>>, invoice |-> <<>>]

HTTPException(status_code, detail, headers) ==
    [kind |-> "HTTPException", status_code |-> status_code, detail |-> detail,
     headers |-> headers]

\* l402_authentication returns None: the endpoint function runs
Returned ==
    [kind |-> "return", status_code |-> 200, detail |-> <<>>, headers |-> NoHeaders]

\* an exception that is no HTTPException leaves the handler: the framework answers 500
Unhandled(exc) ==
    [kind |-> "unhandled", status_code |-> 500, detail |-> <<exc>>, headers |-> NoHeaders]

NoOutcome == [kind |-> "none", status_code |-> 0, detail |-> <<>>, headers |-> NoHeaders]

(***************************************************************************)
(* create_macaroon_with_caveats, with the uuid and the clock it reads.     *)
(***************************************************************************)
PaymentHashCaveat(payment_hash) == <<"payment_hash", " = ">> \o payment_hash
ExpirationCaveat(expiration_time) == <<"expiration", " = ">> \o expiration_time
ScopeCaveat(scope) == <<"scope", " = ">> \o scope

\* mutant: the scope caveat is added before the expiration caveat
Mut_create_macaroon_scope_first(payment_hash, minutes, scope, identifier, utcnow) ==
    LET m0 == NewMacaroon(<<"lighning_goats">>, identifier, SECRET_KEY)
        m1 == add_first_party_caveat(m0, PaymentHashCaveat(payment_hash))
        expiration_time == IsoFormat(utcnow + minutes) \o <<"Z">>
        m2 == add_first_party_caveat(m1, ScopeCaveat(scope))
    IN  add_first_party_caveat(m2, ExpirationCaveat(expiration_time))

create_macaroon_with_caveats(payment_hash, minutes, scope, identifier, utcnow) ==
    LET m0 == NewMacaroon(<<"lighning_goats">>, identifier, SECRET_KEY)
        m1 == add_first_party_caveat(m0, PaymentHashCaveat(payment_hash))
        expiration_time == IsoFormat(utcnow + minutes) \o <<"Z">>
        m2 == add_first_party_caveat(m1, ExpirationCaveat(expiration_time))
    IN  add_first_party_caveat(m2, ScopeCaveat(scope))

(***************************************************************************)
(* verify_payment: the provider's response to GET /payments/{hash}.        *)
(***************************************************************************)
StatusOk(has_paid, paid) == [kind |-> "ok", has_paid |-> has_paid, paid |-> paid]
StatusHttpError == [kind |-> "http_error", has_paid |-> FALSE, paid |-> FALSE]
StatusTransportError == [kind |-> "transport_error", has_paid |-> FALSE, paid |-> FALSE]
\* a 2xx answer whose body is not UTF-8 text, is no JSON text, or is JSON and no
\* object. (No version of httpx is pinned: one that decodes the body leniently
\* before parsing it treats a body that is not UTF-8 as one that is no JSON text.)
StatusNotUtf8 == [kind |-> "not_utf8", has_paid |-> FALSE, paid |-> FALSE]
StatusNotJson == [kind |-> "not_json", has_paid |-> FALSE, paid |-> FALSE]
StatusNotObject == [kind |-> "not_object", has_paid |-> FALSE, paid |-> FALSE]

\* mutant: payment_data.get("paid", True)
Mut_PaidDefaultTrue(resp) == IF resp.has_paid THEN resp.paid ELSE TRUE

\* payment_data.get("paid", False)
PaidField(resp) == IF resp.has_paid THEN resp.paid ELSE FALSE

\* mutant: a failed query counts as "not paid"
Mut_verify_payment_swallows(resp) ==
    IF resp.kind = "http_error" \/ resp.kind = "transport_error"
    THEN [raised |-> FALSE, value |-> FALSE, outcome |-> NoOutcome]
    ELSE IF resp.kind = "not_utf8"
    THEN [raised |-> TRUE, value |-> FALSE, outcome |-> Unhandled("UnicodeDecodeError")]
    ELSE IF resp.kind = "not_json"
    THEN [raised |-> TRUE, value |-> FALSE, outcome |-> Unhandled("json.JSONDecodeError")]
    ELSE IF resp.kind = "not_object"
    THEN [raised |-> TRUE, value |-> FALSE, outcome |-> Unhandled("AttributeError")]
    ELSE [raised |-> FALSE, value |-> PaidField(resp), outcome |-> NoOutcome]

\* [raised, outcome, value]: the exception raised, or the value returned. The two
\* except clauses catch HTTPStatusError and RequestError; what response.json()
\* (line 65) or payment_data.get (line 66) raises leaves verify_payment as it is.
verify_payment(resp) ==
    IF resp.kind = "http_error" \/ resp.kind = "transport_error"
    THEN [raised |-> TRUE, value |-> FALSE,
          outcome |-> HTTPException(502, <<"Error verifying payment status.">>, NoHeaders)]
    ELSE IF resp.kind = "not_utf8"
    THEN [raised |-> TRUE, value |-> FALSE, outcome |-> Unhandled("UnicodeDecodeError")]
    ELSE IF resp.kind = "not_json"
    THEN [raised |-> TRUE, value |-> FALSE, outcome |-> Unhandled("json.JSONDecodeError")]
    ELSE IF resp.kind = "not_object"
    THEN [raised |-> TRUE, value |-> FALSE, outcome |-> Unhandled("AttributeError")]
    ELSE [raised |-> FALSE, value |-> PaidField(resp), outcome |-> NoOutcome]

(***************************************************************************)
(* l402_authentication, lines 76-134: from the header to the first await.  *)
(***************************************************************************)
\* mutant: only an LSAT header counts as a credential
Mut_HasCredentialLsatOnly(authorization) ==
    authorization.present /\ StartsWith(authorization.prefix, <<"LSAT", " ">>)

\* "if authorization:"
HasCredential(authorization) ==
    authorization.present /\ (authorization.prefix # <<>> \/ authorization.body # <<>>)

\* authorization.startswith("LSAT ")
HasLsatScheme(authorization) == StartsWith(authorization.prefix, <<"LSAT", " ">>)

RECURSIVE Mut_ExtractCaveatsFirstWins(_, _)
\* mutant: a key that has a value keeps it, the first caveat of each key wins
Mut_ExtractCaveatsFirstWins(caveats, acc) ==
    IF caveats = <<>> THEN acc
    ELSE LET c == Head(caveats)
             acc2 == IF StartsWith(c, <<"payment_hash", " = ">>) /\ ~acc.payment_hash.found
                        THEN [acc EXCEPT !.payment_hash = Some(AfterFirst(c, " = "))]
                     ELSE IF StartsWith(c, <<"expiration", " = ">>) /\ ~acc.expiration_time.found
                        THEN [acc EXCEPT !.expiration_time = Some(AfterFirst(c, " = "))]
                     ELSE IF StartsWith(c, <<"scope", " = ">>) /\ ~acc.scope.found
                        THEN [acc EXCEPT !.scope = Some(AfterFirst(c, " = "))]
                     ELSE acc
         IN  Mut_ExtractCaveatsFirstWins(Tail(caveats), acc2)

RECURSIVE ExtractCaveats(_, _)
\* the loop of lines 99-105: the last caveat of each key wins
ExtractCaveats(caveats, acc) ==
    IF caveats = <<>> THEN acc
    ELSE LET c == Head(caveats)
             acc2 == IF StartsWith(c, <<"payment_hash", " = ">>)
                        THEN [acc EXCEPT !.payment_hash = Some(AfterFirst(c, " = "))]
                     ELSE IF StartsWith(c, <<"expiration", " = ">>)
                        THEN [acc EXCEPT !.expiration_time = Some(AfterFirst(c, " = "))]
                     ELSE IF StartsWith(c, <<"scope", " = ">>)
                        THEN [acc EXCEPT !.scope = Some(AfterFirst(c, " = "))]
                     ELSE acc
         IN  ExtractCaveats(Tail(caveats), acc2)

NoCaveats == [payment_hash |-> None, expiration_time |-> None, scope |-> None]

\* mutant: "is None" for "not": an empty value counts as present
Mut_MissingCaveatsIsNone(cv) ==
    (IF ~cv.payment_hash.found THEN <<<<"payment_hash">>>> ELSE <<>>)
    \o (IF ~cv.expiration_time.found THEN <<<<"expiration">>>> ELSE <<>>)
    \o (IF ~cv.scope.found THEN <<<<"scope">>>> ELSE <<>>)

\* lines 108-114
MissingCaveats(cv) ==
    (IF Falsy(cv.payment_hash) THEN <<<<"payment_hash">>>> ELSE <<>>)
    \o (IF Falsy(cv.expiration_time) THEN <<<<"expiration">>>> ELSE <<>>)
    \o (IF Falsy(cv.scope) THEN <<<<"scope">>>> ELSE <<>>)

\* mutant: the predicates are formatted without the spaces around "="
Mut_PredicatesNoSpaces(cv) ==
    {<<"payment_hash", "=">> \o cv.payment_hash.value,
     <<"expiration", "=">> \o cv.expiration_time.value,
     <<"scope", "=">> \o cv.scope.value}

\* lines 123-126: the three predicates handed to satisfy_exact
Predicates(cv) ==
    {PaymentHashCaveat(cv.payment_hash.value),
     ExpirationCaveat(cv.expiration_time.value),
     ScopeCaveat(cv.scope.value)}

\* mutant: the exception of verifier.verify is swallowed
Mut_SignatureUnchecked(m, cv) == TRUE

\* lines 129-134
SignatureOk(m, cv) == VerifierVerify(Predicates(cv), m, SECRET_KEY)

\* [raised, outcome, cv]: the exception raised before the payment query, if any
CheckToken(authorization) ==
    IF ~HasLsatScheme(authorization)
    THEN [raised |-> TRUE, cv |-> NoCaveats,
          outcome |-> HTTPException(401, <<"Invalid LSAT header format.">>, NoHeaders)]
    ELSE IF ~CanDeserialize(authorization.body)
    THEN [raised |-> TRUE, cv |-> NoCaveats,
          outcome |-> HTTPException(400, <<"Invalid macaroon.">>, NoHeaders)]
    ELSE LET macaroon == Deserialize(authorization.body)
             cv == ExtractCaveats(macaroon.caveats, NoCaveats)
             missing_caveats == MissingCaveats(cv)
         IN  IF missing_caveats # <<>>
             THEN [raised |-> TRUE, cv |-> cv,
                   outcome |-> HTTPException(401,
                       <<"Macaroon missing caveats: ">> \o Join(missing_caveats, ", ")
                           \o <<".">>, NoHeaders)]
             ELSE IF ~SignatureOk(macaroon, cv)
             THEN [raised |-> TRUE, cv |-> cv,
                   outcome |-> HTTPException(401, <<"Invalid macaroon signature.">>,
                                             NoHeaders)]
             ELSE [raised |-> FALSE, cv |-> cv, outcome |-> NoOutcome]

(***************************************************************************)
(* l402_authentication, lines 137-160: from the payment answer to the end. *)
(***************************************************************************)
IsPaidCheck(is_paid) == is_paid

\* mutant: ">=" for ">"
Mut_ExpirationCheckGeq(expiration_time, utcnow) ==
    LET text == RStrip(expiration_time, "Z")
    IN  IF ~IsIsoFormat(text)
        THEN HTTPException(400, <<"Invalid expiration time format.">>, NoHeaders)
        ELSE IF utcnow >= FromIsoFormat(text)
        THEN HTTPException(401, <<"Macaroon has expired.">>, NoHeaders)
        ELSE NoOutcome

\* lines 143-150
ExpirationCheck(expiration_time, utcnow) ==
    LET text == RStrip(expiration_time, "Z")
    IN  IF ~IsIsoFormat(text)
        THEN HTTPException(400, <<"Invalid expiration time format.">>, NoHeaders)
        ELSE IF utcnow > FromIsoFormat(text)
        THEN HTTPException(401, <<"Macaroon has expired.">>, NoHeaders)
        ELSE NoOutcome

\* mutant: scope.startswith(requested_scope) for equality
Mut_ScopeCheckPrefix(scope, requested_scope) ==
    IF ~StartsWith(scope, requested_scope)
    THEN HTTPException(403, <<"Access to the requested resource is forbidden.">>,
                       NoHeaders)
    ELSE NoOutcome

\* lines 153-156
ScopeCheck(scope, requested_scope) ==
    IF scope # requested_scope
    THEN HTTPException(403, <<"Access to the requested resource is forbidden.">>,
                       NoHeaders)
    ELSE NoOutcome

AfterVerifyPayment(resp, expiration_time, scope, path, utcnow) ==
    LET vp == verify_payment(resp)
    IN  IF vp.raised THEN vp.outcome
        ELSE IF ~IsPaidCheck(vp.value)
        THEN HTTPException(402, <<"Payment required but not completed.">>, NoHeaders)
        ELSE IF ExpirationCheck(expiration_time, utcnow) # NoOutcome
        THEN ExpirationCheck(expiration_time, utcnow)
        ELSE IF ScopeCheck(scope, path) # NoOutcome
        THEN ScopeCheck(scope, path)
        ELSE Returned

(***************************************************************************)
(* l402_authentication, lines 163-183: the challenge.                      *)
(***************************************************************************)
InvoiceOk(payment_request, payment_hash) ==
    [kind |-> "ok", payment_request |-> payment_request, payment_hash |-> payment_hash]
InvoiceHttpError == [kind |-> "http_error", payment_request |-> <<>>, payment_hash |-> <<>>]
InvoiceTransportError ==
    [kind |-> "transport_error", payment_request |-> <<>>, payment_hash |-> <<>>]
\* a 2xx answer whose body is not UTF-8 text, is no JSON text, is JSON and no
\* object, or is a JSON object without the key "payment_request" or "payment_hash"
InvoiceNotUtf8 == [kind |-> "not_utf8", payment_request |-> <<>>, payment_hash |-> <<>>]
InvoiceNotJson == [kind |-> "not_json", payment_request |-> <<>>, payment_hash |-> <<>>]
InvoiceNotObject == [kind |-> "not_object", payment_request |-> <<>>, payment_hash |-> <<>>]
InvoiceNoKey == [kind |-> "no_key", payment_request |-> <<>>, payment_hash |-> <<>>]

InvoiceFailures ==
    {InvoiceHttpError, InvoiceTransportError, InvoiceNotUtf8, InvoiceNotJson,
     InvoiceNotObject, InvoiceNoKey}

\* create_invoice catches nothing: raise_for_status, the transport, response.json()
\* and the subscripts of line 40 raise
create_invoice(resp) ==
    IF resp.kind = "http_error"
    THEN [raised |-> TRUE, outcome |-> Unhandled("httpx.HTTPStatusError"),
          invoice |-> <<>>, payment_hash |-> <<>>]
    ELSE IF resp.kind = "transport_error"
    THEN [raised |-> TRUE, outcome |-> Unhandled("httpx.RequestError"),
          invoice |-> <<>>, payment_hash |-> <<>>]
    ELSE IF resp.kind = "not_utf8"
    THEN [raised |-> TRUE, outcome |-> Unhandled("UnicodeDecodeError"),
          invoice |-> <<>>, payment_hash |-> <<>>]
    ELSE IF resp.kind = "not_json"
    THEN [raised |-> TRUE, outcome |-> Unhandled("json.JSONDecodeError"),
          invoice |-> <<>>, payment_hash |-> <<>>]
    ELSE IF resp.kind = "not_object"
    THEN [raised |-> TRUE, outcome |-> Unhandled("TypeError"),
          invoice |-> <<>>, payment_hash |-> <<>>]
    ELSE IF resp.kind = "no_key"
    THEN [raised |-> TRUE, outcome |-> Unhandled("KeyError"),
          invoice |-> <<>>, payment_hash |-> <<>>]
    ELSE [raised |-> FALSE, outcome |-> NoOutcome,
          invoice |-> resp.payment_request, payment_hash |-> resp.payment_hash]

\* lines 168-183
Challenge(invoice, payment_hash, path, identifier, utcnow) ==
    LET scope == path
        macaroon == create_macaroon_with_caveats(payment_hash, expiration_minutes, scope,
                                                 identifier, utcnow)
        macaroon_base64 == Serialize(macaroon)
    IN  HTTPException(402, <<"Payment Required">>,
                      [present |-> TRUE, macaroon |-> macaroon_base64, invoice |-> invoice])

AfterCreateInvoice(resp, path, identifier, utcnow) ==
    LET ci == create_invoice(resp)
    IN  IF ci.raised THEN ci.outcome
        ELSE Challenge(ci.invoice, ci.payment_hash, path, identifier, utcnow)

(***************************************************************************)
(* The payment provider (LNbits).                                          *)
(***************************************************************************)
InvoiceOf(payment_hash) ==
    {i \in 1..Len(invoices) : invoices[i].payment_hash = payment_hash}

\* the answers to GET /payments/{payment_hash}, as verify_payment tells them apart
StatusAnswers ==
    {StatusHttpError, StatusTransportError, StatusNotUtf8, StatusNotJson, StatusNotObject}
    \cup {StatusOk(h, p) : h, p \in BOOLEAN}

\* what GET /payments/{payment_hash} can answer: the invoice's status when the
\* provider knows the hash, a non-2xx answer, a 2xx answer with another body, or
\* no answer at all
StatusResponses(payment_hash) ==
    {StatusHttpError, StatusTransportError, StatusNotUtf8, StatusNotJson, StatusNotObject}
    \cup {StatusOk(TRUE, invoices[i].paid) : i \in InvoiceOf(payment_hash)}
    \cup {StatusOk(FALSE, FALSE) : i \in InvoiceOf(payment_hash)}

(***************************************************************************)
(* The clients: the headers a request can carry.                           *)
(***************************************************************************)
Garbage == <<Packet("garbage", <<"not-a-macaroon">>, NoSig)>>

BasicHeaders ==
    {NoHeader, Header(<<"Bearer", " ">>, Garbage), LSAT(Garbage), LSAT(<<>>)}

\* caveat i of macaroon m replaced, the signature kept
Substitute(m, i, cid) == [m EXCEPT !.caveats[i] = cid]

\* the same identifier and caveats, signed with another key
Resign(m, key) ==
    LET Fold[k \in 0..Len(m.caveats)] ==
            IF k = 0 THEN NewMacaroon(m.location, m.identifier, key)
            ELSE add_first_party_caveat(Fold[k - 1], m.caveats[k])
    IN  Fold[Len(m.caveats)]

\* what a holder does to an issued token before presenting it
Unchanged == [kind |-> "unchanged", n |-> 0, path |-> <<>>]
Tamperings ==
    {Unchanged, [kind |-> "resigned", n |-> 0, path |-> <<>>],
     [kind |-> "later", n |-> 0, path |-> <<>>]}
    \cup {[kind |-> "hash", n |-> i, path |-> <<>>] : i \in 1..Len(invoices)}
    \cup {[kind |-> "scope", n |-> 0, path |-> p] : p \in Paths}

\* the tamperings that change the issued token s
TamperingsOf(s) ==
    LET cv == ExtractCaveats(Deserialize(s).caveats, NoCaveats)
    IN  {t \in Tamperings :
            /\ t.kind = "hash" => invoices[t.n].payment_hash # cv.payment_hash.value
            /\ t.kind = "scope" => t.path # cv.scope.value}

\* the token a holder of the issued token s presents after tampering t
Tampered(s, t) ==
    LET m == Deserialize(s)
    IN  CASE t.kind = "unchanged" -> m
          [] t.kind = "resigned" -> Resign(m, OtherKey)
          [] t.kind = "hash" ->
                Substitute(m, 1, PaymentHashCaveat(invoices[t.n].payment_hash))
          [] t.kind = "later" ->
                LET cv == ExtractCaveats(m.caveats, NoCaveats)
                    exp == FromIsoFormat(RStrip(cv.expiration_time.value, "Z"))
                IN  Substitute(m, 2, ExpirationCaveat(IsoFormat(exp + ClockStep) \o <<"Z">>))
          [] t.kind = "scope" -> Substitute(m, 3, ScopeCaveat(t.path))

\* A client can also build a token itself, under a key of its own: here with any
\* of the three required caveats left out, or with an empty value.
ForgedCaveats ==
    LET ph == PaymentHashCaveat(ProviderHash(1))
        ex == ExpirationCaveat(IsoFormat(MaxClock) \o <<"Z">>)
        sc == ScopeCaveat(ProtectedResource)
        pick(c, b) == IF b THEN <<c>> ELSE <<>>
    IN  {pick(ph, b1) \o pick(ex, b2) \o pick(sc, b3) : b1, b2, b3 \in BOOLEAN}
        \cup {<<ph, ScopeCaveat(<<>>)>>, <<ph, ex, ScopeCaveat(<<>>)>>}

Forged(caveats) ==
    Resign([location |-> <<"lighning_goats">>, identifier |-> <<"forged">>,
            caveats |-> caveats, signature |-> NoSig], OtherKey)

\* The holder of a token can append caveats to it without the key: the new
\* signature is the hmac of the caveat under the old signature. It can also put
\* a caveat into the token and leave the signature as it is.
ExtraCaveats(s) ==
    ({ScopeCaveat(p) : p \in Paths}
     \cup {ExpirationCaveat(IsoFormat(MaxClock + expiration_minutes + ClockStep) \o <<"Z">>)}
     \cup {PaymentHashCaveat(invoices[i].payment_hash) : i \in 1..Len(invoices)}
     \cup {<<"admin", " = ", "true">>})
    \ {Deserialize(s).caveats[i] : i \in 1..Len(Deserialize(s).caveats)}

Appended(s, cid) == add_first_party_caveat(Deserialize(s), cid)

\* cid put after the first k caveats of the token s, the signature kept
Inserted(s, cid, k) ==
    LET m == Deserialize(s)
    IN  [m EXCEPT !.caveats = SubSeq(m.caveats, 1, k) \o <<cid>>
                                  \o SubSeq(m.caveats, k + 1, Len(m.caveats))]

(***************************************************************************)
(* The state machine.                                                      *)
(***************************************************************************)
Idle ==
    [pc |-> "idle", authorization |-> NoHeader, path |-> <<>>, cv |-> NoCaveats,
     queries |-> <<>>, posts |-> <<>>, outcome |-> NoOutcome, quiet |-> TRUE]

Init ==
    /\ now = 0
    /\ invoices = <<>>
    /\ used_macaroons = {}
    /\ reqs = [r \in Slots |-> Idle]
    /\ issued = {}
    /\ received = 0
    /\ noCredential = 0
    /\ refused = 0
    /\ nextId = 1

\* The handler's end and the response to the client are one step of the event
\* loop: pc = "done" shows the finished request, and nothing else runs before
\* its response has left. The other values of pc are the awaits at which the
\* coroutine is suspended: "await_create_invoice" (line 33), "exit_create_invoice"
\* (the exit of line 32), "await_verify_payment" (line 60), "exit_verify_payment"
\* (the exit of line 59).
NoPendingResponse == \A r \in Slots : reqs[r].pc # "done"

\* the slots are interchangeable: a request takes the first free one
FirstFree(r) == reqs[r].pc = "idle" /\ \A q \in 1..(r - 1) : reqs[q].pc # "idle"

\* l402_authentication is called for a request to path: it runs up to its first
\* await, or to the exception it raises
Handle(r, authorization, path) ==
    /\ NoPendingResponse
    /\ FirstFree(r)
    /\ received < MaxRequests
    /\ received' = received + 1
    /\ IF HasCredential(authorization)
       THEN LET ct == CheckToken(authorization)
            IN  /\ reqs' = [reqs EXCEPT ![r] =
                       [pc |-> IF ct.raised THEN "done" ELSE "await_verify_payment",
                        authorization |-> authorization, path |-> path, cv |-> ct.cv,
                        queries |-> <<>>, posts |-> <<>>, outcome |-> ct.outcome,
                        quiet |-> TRUE]]
                /\ noCredential' = noCredential
       ELSE /\ noCredential < MaxInvoices
            /\ reqs' = [reqs EXCEPT ![r] =
                   [pc |-> "await_create_invoice", authorization |-> authorization,
                    path |-> path, cv |-> NoCaveats, queries |-> <<>>, posts |-> <<>>,
                    outcome |-> NoOutcome, quiet |-> TRUE]]
            /\ noCredential' = noCredential + 1
    /\ UNCHANGED <<now, invoices, used_macaroons, issued, refused, nextId>>

\* a request arrives at the application: the router hands the requests for
\* "/protected-resource" to the gate, and no others
Receive(r, authorization) == \E path \in Routes : Handle(r, authorization, path)

\* the request of a client that holds an issued token, tampered with or not
ReceiveToken(r) ==
    /\ NoPendingResponse
    /\ FirstFree(r)
    /\ received < MaxRequests
    /\ \E c \in issued : \E t \in TamperingsOf(c.macaroon) :
           Receive(r, LSAT(Serialize(Tampered(c.macaroon, t))))

\* the clients that craft tokens present them one at a time, while the gate
\* serves no other request
NoneInFlight == \A q \in Slots : reqs[q].pc = "idle"

\* such a client asks for a challenge
ReceiveUnauthenticated(r) ==
    /\ NoneInFlight
    /\ Receive(r, NoHeader)

\* the request of a client that built its token itself
ReceiveForged(r) ==
    /\ NoneInFlight
    /\ FirstFree(r)
    /\ received < MaxRequests
    /\ \E caveats \in ForgedCaveats : Receive(r, LSAT(Serialize(Forged(caveats))))

\* the request of a client that appended a caveat to an issued token
ReceiveAppended(r) ==
    /\ NoneInFlight
    /\ FirstFree(r)
    /\ received < MaxRequests
    /\ \E c \in issued : \E cid \in ExtraCaveats(c.macaroon) :
           Receive(r, LSAT(Serialize(Appended(c.macaroon, cid))))

\* the request of a client that put a caveat in front of the caveats of an
\* issued token
ReceiveInserted(r) ==
    /\ NoneInFlight
    /\ FirstFree(r)
    /\ received < MaxRequests
    /\ \E c \in issued : \E cid \in ExtraCaveats(c.macaroon) :
           Receive(r, LSAT(Serialize(Inserted(c.macaroon, cid, 0))))

\* mutant: single use is enforced, the verified credential is recorded
Mut_RecordUsed(used, authorization) == used \cup {authorization}

\* what the handler leaves in used_macaroons: it never adds to the set
UsedAfter(used, authorization) == used

\* the provider answers GET /payments/{payment_hash}, or the transport fails:
\* lines 60-66 run and the coroutine leaves the "async with" block of line 59,
\* where it awaits client.__aexit__
StatusAnswered(r, resp) ==
    /\ NoPendingResponse
    /\ reqs[r].pc = "await_verify_payment"
    /\ resp \in StatusResponses(reqs[r].cv.payment_hash.value)
    /\ reqs' = [reqs EXCEPT ![r].pc = "exit_verify_payment", ![r].quiet = TRUE,
                            ![r].queries = Append(@, [payment_hash |-> reqs[r].cv.payment_hash.value,
                                                      resp |-> resp])]
    /\ UNCHANGED <<now, invoices, used_macaroons, issued, received, noCredential, refused,
                   nextId>>

\* the client is closed: verify_payment returns or raises, and the handler runs
\* to its end with the clock it reads now
VerifyPaymentReturns(r) ==
    /\ NoPendingResponse
    /\ reqs[r].pc = "exit_verify_payment"
    /\ reqs' = [reqs EXCEPT ![r].pc = "done",
                            ![r].outcome = AfterVerifyPayment(reqs[r].queries[1].resp,
                                                              reqs[r].cv.expiration_time.value,
                                                              reqs[r].cv.scope.value,
                                                              reqs[r].path, now)]
    /\ used_macaroons' = UsedAfter(used_macaroons, reqs[r].authorization)
    /\ UNCHANGED <<now, invoices, issued, received, noCredential, refused, nextId>>

\* the invoice the provider creates as its n-th
NewInvoice(n) ==
    [payment_request |-> ProviderRequest(n), payment_hash |-> ProviderHash(n),
     amount |-> amount, paid |-> FALSE]

\* the provider creates the invoice and answers POST /payments: lines 33-40 run
\* and the coroutine leaves the "async with" block of line 32, where it awaits
\* client.__aexit__
InvoiceCreated(r) ==
    /\ NoPendingResponse
    /\ reqs[r].pc = "await_create_invoice"
    /\ LET n == Len(invoices) + 1
           resp == InvoiceOk(ProviderRequest(n), ProviderHash(n))
       IN  /\ invoices' = Append(invoices, NewInvoice(n))
           /\ reqs' = [reqs EXCEPT ![r].pc = "exit_create_invoice", ![r].quiet = TRUE,
                                   ![r].posts = Append(@, resp)]
    /\ UNCHANGED <<now, used_macaroons, issued, received, noCredential, refused, nextId>>

\* POST /payments fails: the provider answers non-2xx and creates nothing, or the
\* transport fails, before the request arrived or after the invoice was created,
\* or the 2xx answer has not the body that lines 39-40 read
InvoiceFailed(r, resp, created) ==
    /\ NoPendingResponse
    /\ reqs[r].pc = "await_create_invoice"
    /\ resp \in InvoiceFailures
    /\ created => resp # InvoiceHttpError
    /\ invoices' = IF created THEN Append(invoices, NewInvoice(Len(invoices) + 1))
                   ELSE invoices
    /\ reqs' = [reqs EXCEPT ![r].pc = "exit_create_invoice", ![r].quiet = TRUE,
                            ![r].posts = Append(@, resp)]
    /\ refused' = IF created THEN refused ELSE refused + 1
    /\ UNCHANGED <<now, used_macaroons, issued, received, noCredential, nextId>>

\* the client is closed: create_invoice returns or raises; on return the handler
\* mints the token, with the clock and the uuid it reads now, and raises the
\* challenge
CreateInvoiceReturns(r) ==
    /\ NoPendingResponse
    /\ reqs[r].pc = "exit_create_invoice"
    /\ reqs' = [reqs EXCEPT ![r].pc = "done",
                            ![r].outcome = AfterCreateInvoice(reqs[r].posts[1], reqs[r].path,
                                                              Uuid(nextId), now)]
    /\ nextId' = IF reqs[r].posts[1].kind = "ok" THEN nextId + 1 ELSE nextId
    /\ UNCHANGED <<now, invoices, used_macaroons, issued, received, noCredential, refused>>

\* httpx.AsyncClient() is built without a timeout argument: the default timeouts
\* of httpx hold, each for one operation (connect, read, write, pool). A call
\* raises httpx.ReadTimeout (or ConnectTimeout), a RequestError, when an
\* operation got nothing for its whole period: "quiet" says that the provider
\* has sent nothing since the timer of the pending operation was started.
\* Nothing limits the time of the call as a whole.
Waiting(q) == q.pc \in {"await_create_invoice", "await_verify_payment"}

TimesOut(q) == Waiting(q) /\ q.quiet

\* the provider sends a part of its response, not the end of it: the pending
\* read returns
ProviderSendsBytes(r) ==
    /\ NoPendingResponse
    /\ Waiting(reqs[r])
    /\ reqs[r].quiet
    /\ reqs' = [reqs EXCEPT ![r].quiet = FALSE]
    /\ UNCHANGED <<now, invoices, used_macaroons, issued, received, noCredential, refused,
                   nextId>>

\* the client reads on: the timer of the next read is started
ReadsOn(r) ==
    /\ NoPendingResponse
    /\ Waiting(reqs[r])
    /\ ~reqs[r].quiet
    /\ reqs' = [reqs EXCEPT ![r].quiet = TRUE]
    /\ UNCHANGED <<now, invoices, used_macaroons, issued, received, noCredential, refused,
                   nextId>>

\* the status query got nothing from the provider for the period of a timeout
StatusTimedOut(r) ==
    /\ TimesOut(reqs[r])
    /\ StatusAnswered(r, StatusTransportError)

\* the invoice request got nothing from the provider for the period of a
\* timeout, whether the provider has created the invoice or not
InvoiceTimedOut(r) ==
    /\ TimesOut(reqs[r])
    /\ \E created \in BOOLEAN : InvoiceFailed(r, InvoiceTransportError, created)

\* the request of a client that presents the token of its challenge as it is
ReceiveIssued(r) ==
    /\ NoPendingResponse
    /\ FirstFree(r)
    /\ received < MaxRequests
    /\ \E c \in issued : Receive(r, LSAT(c.macaroon))

\* l402_authentication as the dependency of the routes of Paths: a request
\* without header, or with an issued token as it is, for either path
ReceiveAtPath(r) ==
    /\ NoneInFlight
    /\ \E path \in Paths :
           \/ Handle(r, NoHeader, path)
           \/ \E c \in issued : Handle(r, LSAT(c.macaroon), path)

\* the response leaves; a challenge reaches the client, who now holds its token
Respond(r) ==
    /\ reqs[r].pc = "done"
    /\ reqs' = [reqs EXCEPT ![r] = Idle]
    /\ issued' = IF reqs[r].outcome.headers.present
                 THEN issued \cup {[macaroon |-> reqs[r].outcome.headers.macaroon,
                                    invoice |-> reqs[r].outcome.headers.invoice]}
                 ELSE issued
    /\ UNCHANGED <<now, invoices, used_macaroons, received, noCredential, refused, nextId>>

\* the payer settles an invoice at the provider
PayInvoice(i) ==
    /\ NoPendingResponse
    /\ i \in 1..Len(invoices)
    /\ ~invoices[i].paid
    /\ invoices' = [invoices EXCEPT ![i].paid = TRUE]
    /\ UNCHANGED <<now, used_macaroons, reqs, issued, received, noCredential, refused, nextId>>

Tick ==
    /\ NoPendingResponse
    /\ now + ClockStep <= MaxClock
    /\ now' = now + ClockStep
    /\ UNCHANGED <<invoices, used_macaroons, reqs, issued, received, noCredential, refused, nextId>>

\* A request whose header or token fails a check of lines 79-134 is denied in
\* the step in which it arrives, before any await, and shares no state with the
\* other coroutines: such requests are taken while no other request is in flight.
ReceiveMalformed(r) ==
    /\ NoneInFlight
    /\ \E authorization \in BasicHeaders \ {NoHeader} : Receive(r, authorization)

ReceiveTampered(r) ==
    /\ NoneInFlight
    /\ ReceiveToken(r)

\* The application before a provider that creates every invoice it is asked
\* for and answers the status queries in any way, or not at all. Requests
\* without header and requests with an issued token arrive at any time, also
\* while others are in flight.
Next ==
    \/ \E r \in Slots : Receive(r, NoHeader)
    \/ \E r \in Slots : ReceiveIssued(r)
    \/ \E r \in Slots : ReceiveMalformed(r)
    \/ \E r \in Slots : ReceiveTampered(r)
    \/ \E r \in Slots, resp \in StatusAnswers : StatusAnswered(r, resp)
    \/ \E r \in Slots : VerifyPaymentReturns(r)
    \/ \E r \in Slots : InvoiceCreated(r)
    \/ \E r \in Slots : CreateInvoiceReturns(r)
    \/ \E r \in Slots : Respond(r)
    \/ \E i \in 1..MaxInvoices : PayInvoice(i)
    \/ Tick

Spec == Init /\ [][Next]_vars

\* The application before a provider that fails to create invoices: requests
\* without header, with a header that is no credential of the gate, and with
\* an issued token.
NextInvoices ==
    \/ \E r \in Slots : Receive(r, NoHeader)
    \/ \E r \in Slots : ReceiveIssued(r)
    \/ \E r \in Slots : ReceiveMalformed(r)
    \/ \E r \in Slots, resp \in StatusAnswers : StatusAnswered(r, resp)
    \/ \E r \in Slots : VerifyPaymentReturns(r)
    \/ \E r \in Slots : InvoiceCreated(r)
    \/ \E r \in Slots, resp \in InvoiceFailures, created \in BOOLEAN :
           InvoiceFailed(r, resp, created)
    \/ \E r \in Slots : CreateInvoiceReturns(r)
    \/ \E r \in Slots : Respond(r)

SpecInvoices == Init /\ [][NextInvoices]_vars

\* The application before a provider that may never answer, or never finish its
\* answer, for the requests that call the provider: those without credential
\* and those with an issued token. Nothing obliges the provider to respond. What
\* is guaranteed is that a timeout of the client fires when the provider stays
\* quiet, and that the event loop resumes a coroutine that is ready: one that
\* got bytes to read, one whose client has been closed (the exit of "async
\* with" does not wait for the provider) or whose response is to be sent.
TimedOut(r) == StatusTimedOut(r) \/ InvoiceTimedOut(r)

Resumed(r) ==
    ReadsOn(r) \/ VerifyPaymentReturns(r) \/ CreateInvoiceReturns(r) \/ Respond(r)

NextLive ==
    \/ \E r \in Slots : Receive(r, NoHeader)
    \/ \E r \in Slots : ReceiveIssued(r)
    \/ \E r \in Slots, resp \in StatusAnswers : StatusAnswered(r, resp)
    \/ \E r \in Slots : VerifyPaymentReturns(r)
    \/ \E r \in Slots : InvoiceCreated(r)
    \/ \E r \in Slots : CreateInvoiceReturns(r)
    \/ \E r \in Slots : ProviderSendsBytes(r)
    \/ \E r \in Slots : ReadsOn(r)
    \/ \E r \in Slots : StatusTimedOut(r)
    \/ \E r \in Slots : InvoiceTimedOut(r)
    \/ \E r \in Slots : Respond(r)
    \/ \E i \in 1..MaxInvoices : PayInvoice(i)

SpecLive ==
    /\ Init
    /\ [][NextLive]_vars
    /\ \A r \in Slots : WF_vars(TimedOut(r))
    /\ \A r \in Slots : WF_vars(Resumed(r))

\* The gate before clients that add caveats to the tokens of their challenges.
NextCrafted ==
    \/ \E r \in Slots : ReceiveUnauthenticated(r)
    \/ \E r \in Slots : ReceiveAppended(r)
    \/ \E r \in Slots : ReceiveInserted(r)
    \/ \E r \in Slots, resp \in StatusAnswers : StatusAnswered(r, resp)
    \/ \E r \in Slots : VerifyPaymentReturns(r)
    \/ \E r \in Slots : InvoiceCreated(r)
    \/ \E r \in Slots : CreateInvoiceReturns(r)
    \/ \E r \in Slots : Respond(r)
    \/ \E i \in 1..MaxInvoices : PayInvoice(i)
    \/ Tick

SpecCrafted == Init /\ [][NextCrafted]_vars

\* The gate before clients that forge tokens under a key of their own.
NextForged ==
    \/ \E r \in Slots : ReceiveUnauthenticated(r)
    \/ \E r \in Slots : ReceiveForged(r)
    \/ \E r \in Slots : InvoiceCreated(r)
    \/ \E r \in Slots : CreateInvoiceReturns(r)
    \/ \E r \in Slots : Respond(r)
    \/ \E i \in 1..MaxInvoices : PayInvoice(i)
    \/ Tick

SpecForged == Init /\ [][NextForged]_vars

\* The gate as the dependency of two routes, one path a prefix and a suffix of
\* the other, before clients that present the tokens of their challenges to
\* either path. The application of main.py has the first route alone.
NextRoutes ==
    \/ \E r \in Slots : ReceiveAtPath(r)
    \/ \E r \in Slots, resp \in StatusAnswers : StatusAnswered(r, resp)
    \/ \E r \in Slots : VerifyPaymentReturns(r)
    \/ \E r \in Slots : InvoiceCreated(r)
    \/ \E r \in Slots : CreateInvoiceReturns(r)
    \/ \E r \in Slots : Respond(r)
    \/ \E i \in 1..MaxInvoices : PayInvoice(i)
    \/ Tick

SpecRoutes == Init /\ [][NextRoutes]_vars

(***************************************************************************)
(* Vocabulary of the properties.                                           *)
(***************************************************************************)
Done(r) == reqs[r].pc = "done"

\* the request of slot r presented "LSAT <token>" with a token that deserializes
PresentsToken(r) ==
    /\ reqs[r].pc # "idle"
    /\ reqs[r].authorization.present
    /\ reqs[r].authorization.prefix = <<"LSAT", " ">>
    /\ CanDeserialize(reqs[r].authorization.body)

TokenOf(r) == Deserialize(reqs[r].authorization.body)

\* the values the caveats of m give to a key
ValuesOf(m, key) ==
    {SubSeq(m.caveats[i], 3, Len(m.caveats[i])) :
        i \in {j \in 1..Len(m.caveats) : StartsWith(m.caveats[j], <<key, " = ">>)}}

\* m carries the three required caveats, each once and with a value, and nothing else
WellFormed(m) ==
    /\ Len(m.caveats) = 3
    /\ \A key \in {"payment_hash", "expiration", "scope"} :
           Cardinality(ValuesOf(m, key)) = 1 /\ <<>> \notin ValuesOf(m, key)

ValueOf(m, key) == CHOOSE v \in ValuesOf(m, key) : TRUE

\* the signature of m is the chain of the process key over its identifier and
\* all its caveats
ValidlySigned(m) ==
    m.signature = [key |-> SECRET_KEY, chain |-> <<m.identifier>> \o m.caveats]

\* the instant each timestamp text denotes
InstantOfText ==
    [x \in {ToString(t) : t \in Instants} |-> CHOOSE t \in Instants : ToString(t) = x]

\* the expiration caveat of m is the text of an instant followed by "Z"
HasExpiry(m) ==
    LET v == ValueOf(m, "expiration")
    IN  Len(v) = 2 /\ v[2] = "Z" /\ v[1] \in DOMAIN InstantOfText

\* that instant
ExpiryOf(m) == InstantOfText[ValueOf(m, "expiration")[1]]

\* the request of slot r got exactly one answer to its status query, and it was
\* paid = true
AnsweredPaid(r) ==
    /\ Len(reqs[r].queries) = 1
    /\ reqs[r].queries[1].resp = StatusOk(TRUE, TRUE)

\* the status query of the request of slot r failed
QueryFailed(r) ==
    /\ Len(reqs[r].queries) = 1
    /\ reqs[r].queries[1].resp.kind \in {"http_error", "transport_error"}

Authenticated(r) == Done(r) /\ reqs[r].outcome.kind = "return"

Denied(r, status_code, detail) ==
    /\ Done(r)
    /\ reqs[r].outcome.kind = "HTTPException"
    /\ reqs[r].outcome.status_code = status_code
    /\ reqs[r].outcome.detail = <<detail>>

TypeOK ==
    /\ now \in 0..MaxClock
    /\ used_macaroons = {}
    /\ received \in 0..MaxRequests
    /\ noCredential \in 0..MaxInvoices
    /\ Len(invoices) <= MaxInvoices
    /\ \A r \in Slots : reqs[r].pc \in {"idle", "await_create_invoice", "exit_create_invoice",
                                        "await_verify_payment", "exit_verify_payment",
                                        "done"}

(***************************************************************************)
(* C1: every request that l402_authentication lets through queried the     *)
(* provider, during that request, exactly once and for the payment_hash of  *)
(* the presented token's caveat, and the answer was paid = true (an answer  *)
(* that the provider's state at that moment gives: nothing is cached).      *)
(***************************************************************************)
C1_AuthenticatedQueriedPaid ==
    \A r \in Slots : Authenticated(r) =>
        /\ PresentsToken(r)
        /\ ValuesOf(TokenOf(r), "payment_hash") # {}
        /\ Len(reqs[r].queries) = 1
        /\ \A h \in ValuesOf(TokenOf(r), "payment_hash") :
               reqs[r].queries[1].payment_hash = h
        /\ reqs[r].queries[1].resp = StatusOk(TRUE, TRUE)
        /\ \E i \in 1..Len(invoices) :
               /\ invoices[i].payment_hash = reqs[r].queries[1].payment_hash
               /\ invoices[i].paid

C1_Witness == \E r \in Slots : Authenticated(r) /\ AnsweredPaid(r)

(***************************************************************************)
(* C2: a validly signed, unexpired token whose status query answered paid   *)
(* is authenticated when its scope caveat equals the requested path and is  *)
(* denied with 403 for every other path; no request is authenticated for a  *)
(* path that differs from the scope of its token.                           *)
(***************************************************************************)
FitForScopeCheck(r) ==
    /\ Done(r)
    /\ PresentsToken(r)
    /\ WellFormed(TokenOf(r))
    /\ ValidlySigned(TokenOf(r))
    /\ AnsweredPaid(r)
    /\ HasExpiry(TokenOf(r))
    /\ now <= ExpiryOf(TokenOf(r))

C2_ScopeExact ==
    \A r \in Slots :
        /\ FitForScopeCheck(r) =>
               IF ValueOf(TokenOf(r), "scope") = reqs[r].path
               THEN Authenticated(r)
               ELSE Denied(r, 403, "Access to the requested resource is forbidden.")
        /\ Authenticated(r) => ValuesOf(TokenOf(r), "scope") = {reqs[r].path}

\* a settled, unexpired token presented to a path that is a proper prefix of its scope
C2_Witness ==
    \E r \in Slots :
        /\ FitForScopeCheck(r)
        /\ ValueOf(TokenOf(r), "scope") # reqs[r].path
        /\ StartsWith(ValueOf(TokenOf(r), "scope"), reqs[r].path)
        /\ Denied(r, 403, "Access to the requested resource is forbidden.")

(***************************************************************************)
(* C3: a validly signed, in-scope token whose status query answered paid is *)
(* denied with 401 as expired when the clock is strictly after its          *)
(* expiration, and authenticated when the clock is not after it.            *)
(***************************************************************************)
FitForExpirationCheck(r) ==
    /\ Done(r)
    /\ PresentsToken(r)
    /\ WellFormed(TokenOf(r))
    /\ ValidlySigned(TokenOf(r))
    /\ ValueOf(TokenOf(r), "scope") = reqs[r].path
    /\ AnsweredPaid(r)

C3_ExpirationBoundary ==
    \A r \in Slots :
        FitForExpirationCheck(r) /\ HasExpiry(TokenOf(r)) =>
            IF now > ExpiryOf(TokenOf(r)) THEN Denied(r, 401, "Macaroon has expired.")
            ELSE Authenticated(r)

\* an issued token, resubmitted unchanged after its expiration
C3_Witness ==
    \E r \in Slots : \E c \in issued :
        /\ FitForExpirationCheck(r)
        /\ reqs[r].authorization = LSAT(c.macaroon)
        /\ Denied(r, 401, "Macaroon has expired.")

(***************************************************************************)
(* C4: a token made from an issued token by substituting the value of a     *)
(* caveat, the signature kept, is never authenticated: the request ends at  *)
(* once with 401 "Invalid macaroon signature.".                             *)
(***************************************************************************)
SubstitutedFrom(m, m0) ==
    /\ m.identifier = m0.identifier
    /\ m.location = m0.location
    /\ m.signature = m0.signature
    /\ Len(m.caveats) = Len(m0.caveats)
    /\ m.caveats # m0.caveats
    /\ \A i \in 1..Len(m.caveats) :
           /\ Len(m.caveats[i]) >= 3
           /\ SubSeq(m.caveats[i], 1, 2) = SubSeq(m0.caveats[i], 1, 2)

PresentsSubstituted(r) ==
    /\ PresentsToken(r)
    /\ \E c \in issued : SubstitutedFrom(TokenOf(r), Deserialize(c.macaroon))

C4_SubstitutionDenied ==
    \A r \in Slots :
        Denied(r, 401, "Invalid macaroon signature.") \/ ~PresentsSubstituted(r)

\* the payment_hash of another, settled invoice put into an issued token
C4_Witness ==
    \E r \in Slots : \E i \in 1..Len(invoices) : \E c \in issued :
        /\ PresentsToken(r)
        /\ SubstitutedFrom(TokenOf(r), Deserialize(c.macaroon))
        /\ invoices[i].paid
        /\ ValuesOf(TokenOf(r), "payment_hash") = {invoices[i].payment_hash}
        /\ ValuesOf(Deserialize(c.macaroon), "payment_hash") # {invoices[i].payment_hash}
        /\ Denied(r, 401, "Invalid macaroon signature.")

(***************************************************************************)
(* C5: the challenge of a request without Authorization header to path p is *)
(* a 402 whose token has exactly the caveats payment_hash = the hash the     *)
(* provider returned for the invoice of the same challenge, expiration =     *)
(* issue time + 30 minutes, scope = p, in this order.                        *)
(***************************************************************************)
Challenged(r) ==
    /\ Done(r)
    /\ ~reqs[r].authorization.present
    /\ Len(reqs[r].posts) = 1
    /\ reqs[r].posts[1].kind = "ok"

C5_ChallengeCaveats ==
    \A r \in Slots : Challenged(r) =>
        /\ reqs[r].outcome.status_code = 402
        /\ reqs[r].outcome.headers.present
        /\ reqs[r].outcome.headers.invoice = reqs[r].posts[1].payment_request
        /\ CanDeserialize(reqs[r].outcome.headers.macaroon)
        /\ \E i \in 1..Len(invoices) :
               /\ invoices[i].payment_request = reqs[r].outcome.headers.invoice
               /\ invoices[i].payment_hash = reqs[r].posts[1].payment_hash
               /\ Deserialize(reqs[r].outcome.headers.macaroon).caveats =
                      << <<"payment_hash", " = ">> \o invoices[i].payment_hash,
                         <<"expiration", " = ", ToString(now + expiration_minutes), "Z">>,
                         <<"scope", " = ">> \o reqs[r].path >>

\* a second challenge, issued later than the first and for another invoice
C5_Witness ==
    \E r \in Slots : \E c \in issued :
        /\ Challenged(r)
        /\ reqs[r].outcome.status_code = 402
        /\ now > 0
        /\ c.invoice # reqs[r].outcome.headers.invoice
        /\ ValuesOf(Deserialize(c.macaroon), "expiration")
               # ValuesOf(Deserialize(reqs[r].outcome.headers.macaroon), "expiration")

(***************************************************************************)
(* C6: an issued token presented back unchanged as "LSAT <token>" passes    *)
(* deserialization, caveat extraction and signature verification (its       *)
(* status query is sent), and is authenticated when it is presented to its  *)
(* path, not after its expiration, and the query answers paid.              *)
(***************************************************************************)
PresentsIssued(r) ==
    /\ reqs[r].pc # "idle"
    /\ \E c \in issued : reqs[r].authorization = LSAT(c.macaroon)

C6_RoundTrip ==
    \A r \in Slots : PresentsIssued(r) =>
        /\ \/ reqs[r].pc = "await_verify_payment"
           \/ reqs[r].pc \in {"exit_verify_payment", "done"} /\ Len(reqs[r].queries) = 1
        /\ ExtractCaveats(TokenOf(r).caveats, NoCaveats).scope.found
        /\ HasExpiry(TokenOf(r))
        /\ ( /\ Done(r)
             /\ AnsweredPaid(r)
             /\ now <= ExpiryOf(TokenOf(r))
             /\ ValueOf(TokenOf(r), "scope") = reqs[r].path )
           => Authenticated(r)

\* an issued token authenticated at the very instant of its expiration
C6_Witness ==
    \E r \in Slots :
        /\ PresentsIssued(r)
        /\ Authenticated(r)
        /\ ExpiryOf(TokenOf(r)) = now

(***************************************************************************)
(* C7: the invoices created at the provider and the requests.               *)
(***************************************************************************)
\* the request of slot r carried a credential: a non-empty Authorization header
CarriesCredential(r) ==
    /\ reqs[r].authorization.present
    /\ reqs[r].authorization.prefix # <<>> \/ reqs[r].authorization.body # <<>>

CreatingInvoice == {r \in Slots : reqs[r].pc = "await_create_invoice"}

\* C7 as stated: once no create_invoice call is in flight, the provider holds as
\* many invoices as requests without credential were received
C7_InvoicesEqualRequests ==
    CreatingInvoice = {} => Len(invoices) = noCredential

\* C7, amended: every request without credential makes exactly one create_invoice
\* call, which creates at most one invoice and none when the provider refuses it
\* or is not reached; a request that carries a credential makes no such call.
\* So the invoices are as many as the requests without credential less the calls
\* that created nothing (and those still in flight).
C7_InvoicesPerCall ==
    /\ noCredential = Len(invoices) + refused + Cardinality(CreatingInvoice)
    /\ \A r \in Slots :
           /\ reqs[r].pc # "idle" /\ CarriesCredential(r) => reqs[r].posts = <<>>
           /\ Done(r) /\ ~CarriesCredential(r) =>
                  /\ Len(reqs[r].posts) = 1
                  /\ reqs[r].posts[1].kind = "ok" =>
                         Cardinality(InvoiceOf(reqs[r].posts[1].payment_hash)) = 1

\* a second request without credential got its own, second invoice while an
\* earlier call had created nothing
C7_Witness ==
    \E r \in Slots :
        /\ Done(r) /\ ~CarriesCredential(r)
        /\ reqs[r].posts[1].kind = "ok"
        /\ refused = 1
        /\ noCredential = 2
        /\ Len(invoices) = 1

(***************************************************************************)
(* C8: the 402 outcomes of the gate.                                        *)
(***************************************************************************)
\* C8: every 402 outcome, for a request without credential and for a request
\* whose valid token's payment is not settled, has detail "Payment Required"
\* and a WWW-Authenticate header with a macaroon and an invoice.  Line 140
\* raises the 402 of the unsettled payment with another detail and no header.
C8_Every402IsAChallenge ==
    \A r \in Slots : Done(r) /\ reqs[r].outcome.status_code = 402 =>
        /\ reqs[r].outcome.detail = <<"Payment Required">>
        /\ reqs[r].outcome.headers.present
        /\ reqs[r].outcome.headers.macaroon # <<>>
        /\ reqs[r].outcome.headers.invoice # <<>>

(***************************************************************************)
(* C9: when invoice creation fails, the request ends with HTTP 502, the     *)
(* status of a failed payment-status query, and with no token and no        *)
(* challenge.                                                               *)
(***************************************************************************)
InvoiceCreationFailed(r) ==
    /\ Done(r)
    /\ Len(reqs[r].posts) = 1
    /\ reqs[r].posts[1].kind \in {"http_error", "transport_error"}

C9_InvoiceFailureIs502 ==
    \A r \in Slots : InvoiceCreationFailed(r) =>
        /\ reqs[r].outcome.kind = "HTTPException"
        /\ reqs[r].outcome.status_code = 502
        /\ ~reqs[r].outcome.headers.present

(***************************************************************************)
(* C10: a request whose payment-status query fails is never authenticated:  *)
(* it ends with HTTP 502, and 502 is the status of no other outcome, so it  *)
(* differs from the denials 400, 401, 402 and 403.                          *)
(***************************************************************************)
C10_QueryFailureIs502 ==
    \A r \in Slots : Done(r) =>
        /\ QueryFailed(r) => Denied(r, 502, "Error verifying payment status.")
        /\ QueryFailed(r) => reqs[r].outcome.status_code \notin {200, 400, 401, 402, 403}
        /\ reqs[r].outcome.status_code = 502 => QueryFailed(r)

\* the query for the settled invoice of an issued, in-scope token fails
C10_Witness ==
    \E r \in Slots : \E i \in 1..Len(invoices) :
        /\ PresentsIssued(r)
        /\ QueryFailed(r)
        /\ reqs[r].queries[1].resp.kind = "transport_error"
        /\ invoices[i].paid
        /\ invoices[i].payment_hash = reqs[r].queries[1].payment_hash
        /\ Denied(r, 502, "Error verifying payment status.")

(***************************************************************************)
(* C11: verification has no side effects. used_macaroons stays empty, no    *)
(* step of a request changes the payment status of an invoice, and the      *)
(* outcome of an issued token presented unchanged is a function of the      *)
(* clock, the path and the provider's answer alone, however often and       *)
(* however concurrently it is presented: it is authenticated whenever the   *)
(* answer is paid, the path is its scope and the clock is not after its     *)
(* expiration.                                                              *)
(***************************************************************************)
OutcomeOfIssued(r) ==
    LET resp == reqs[r].queries[1].resp
    IN  IF QueryFailed(r) THEN Denied(r, 502, "Error verifying payment status.")
        ELSE IF resp.kind # "ok" THEN reqs[r].outcome.kind = "unhandled"
        ELSE IF resp # StatusOk(TRUE, TRUE)
        THEN Denied(r, 402, "Payment required but not completed.")
        ELSE IF now > ExpiryOf(TokenOf(r)) THEN Denied(r, 401, "Macaroon has expired.")
        ELSE IF ValueOf(TokenOf(r), "scope") # reqs[r].path
        THEN Denied(r, 403, "Access to the requested resource is forbidden.")
        ELSE Authenticated(r)

NoSideEffectState ==
    /\ used_macaroons = {}
    /\ \A r \in Slots : Done(r) /\ PresentsIssued(r) =>
           /\ Len(reqs[r].queries) = 1
           /\ OutcomeOfIssued(r)

\* a step that changes the payment status of an invoice is no step of a request
PaymentStatusStep ==
    \A i \in 1..Len(invoices) : invoices'[i].paid # invoices[i].paid => reqs' = reqs

C11_NoSideEffects == [](NoSideEffectState) /\ [][PaymentStatusStep]_vars

\* an issued token is authenticated while the same token, presented concurrently
\* to the same path, still awaits its own status query
C11_Witness ==
    \E r, q \in Slots :
        /\ r # q
        /\ PresentsIssued(r)
        /\ Authenticated(r)
        /\ reqs[q].authorization = reqs[r].authorization
        /\ reqs[q].path = reqs[r].path
        /\ reqs[q].pc = "await_verify_payment"

(***************************************************************************)
(* C12: the denial of a token that lacks required caveats.                  *)
(***************************************************************************)
RequiredKeys == <<"payment_hash", "expiration", "scope">>

\* the required keys that satisfy Lacks(m, key), in the order of RequiredKeys
KeysThat(Lacks(_, _), m) ==
    LET Pick[k \in 0..Len(RequiredKeys)] ==
            IF k = 0 THEN <<>>
            ELSE IF Lacks(m, RequiredKeys[k]) THEN Append(Pick[k - 1], <<RequiredKeys[k]>>)
            ELSE Pick[k - 1]
    IN  Pick[Len(RequiredKeys)]

\* m has no caveat of the key
Absent(m, key) == ValuesOf(m, key) = {}

\* m has no caveat of the key, or the value of its last caveat of the key is empty
AbsentOrEmpty(m, key) ==
    LET at == {i \in 1..Len(m.caveats) : StartsWith(m.caveats[i], <<key, " = ">>)}
    IN  \/ at = {}
        \/ \E i \in at : (\A j \in at : j <= i) /\ Len(m.caveats[i]) = 2

MissingDetail(keys) == <<"Macaroon missing caveats: ">> \o Join(keys, ", ") \o <<".">>

DeniedMissing(r, keys) ==
    /\ reqs[r].outcome.kind = "HTTPException"
    /\ reqs[r].outcome.status_code = 401
    /\ reqs[r].outcome.detail = MissingDetail(keys)
    /\ reqs[r].queries = <<>>

GateDenials ==
    LET heads == BasicHeaders \cup {LSAT(Serialize(Forged(c))) : c \in ForgedCaveats}
        early == {CheckToken(h).outcome : h \in {x \in heads : CheckToken(x).raised}}
        late  == {AfterVerifyPayment(resp, e, ProtectedResource, p, ClockStep) :
                     resp \in {StatusHttpError, StatusOk(TRUE, FALSE), StatusOk(TRUE, TRUE)},
                     e \in {IsoFormat(0) \o <<"Z">>, IsoFormat(ClockStep) \o <<"Z">>,
                             <<"tomorrow">>},
                     p \in Paths}
    IN  {d \in early \cup late : d.kind = "HTTPException"}

\* the denial path an outcome comes from: the fixed head of its detail
ReasonOf(outcome) == outcome.detail[1]

C13_DistinctReasonCodes ==
    \A r \in Slots : Done(r) /\ reqs[r].outcome.kind = "HTTPException" =>
        \A d \in GateDenials :
            ReasonOf(d) # ReasonOf(reqs[r].outcome) =>
                d.status_code # reqs[r].outcome.status_code

(***************************************************************************)
(* C14: no payment-status query is sent for a token that is expired or out  *)
(* of scope when it is presented: a request enters its wait for the         *)
(* provider's answer only with a token that is unexpired and in scope.      *)
(***************************************************************************)
\* in this step the request of slot r arrives, with a validly signed token
\* carrying the three caveats
ArrivesWithValidToken(r) ==
    /\ reqs[r].pc = "idle"
    /\ reqs'[r].pc # "idle"
    /\ reqs'[r].authorization.prefix = <<"LSAT", " ">>
    /\ CanDeserialize(reqs'[r].authorization.body)
    /\ WellFormed(Deserialize(reqs'[r].authorization.body))
    /\ ValidlySigned(Deserialize(reqs'[r].authorization.body))
    /\ HasExpiry(Deserialize(reqs'[r].authorization.body))

ExpiredOnArrival(r) == now > ExpiryOf(Deserialize(reqs'[r].authorization.body))

OutOfScopeOnArrival(r) ==
    ValueOf(Deserialize(reqs'[r].authorization.body), "scope") # reqs'[r].path

NoQueryForInvalidToken ==
    \A r \in Slots :
        ArrivesWithValidToken(r) /\ (ExpiredOnArrival(r) \/ OutOfScopeOnArrival(r)) =>
            /\ reqs'[r].pc # "await_verify_payment"
            /\ reqs'[r].queries = <<>>

C14_NoQueryForInvalidToken == [][NoQueryForInvalidToken]_vars

(***************************************************************************)
(* C15: the checks short-circuit in the order scheme, deserialization,      *)
(* missing caveats, signature, expiration, scope, payment: a validly signed *)
(* token that is expired when presented is denied as expired, and one that  *)
(* is unexpired and out of scope as scope-forbidden, before the payment     *)
(* step and so whatever the provider would answer.                          *)
(***************************************************************************)
EndsWith(r, status_code, detail) ==
    /\ reqs'[r].pc = "done"
    /\ reqs'[r].outcome.kind = "HTTPException"
    /\ reqs'[r].outcome.status_code = status_code
    /\ reqs'[r].outcome.detail = <<detail>>

EarliestFailureFirst ==
    \A r \in Slots : ArrivesWithValidToken(r) =>
        /\ ExpiredOnArrival(r) => EndsWith(r, 401, "Macaroon has expired.")
        /\ ~ExpiredOnArrival(r) /\ OutOfScopeOnArrival(r) =>
               EndsWith(r, 403, "Access to the requested resource is forbidden.")

C15_EarliestFailureFirst == [][EarliestFailureFirst]_vars

(***************************************************************************)
(* C16: signature verification comes before every use of the caveat values  *)
(* for a decision. The signature of a token verifies when it is the hmac    *)
(* chain, from the process key, over its identifier and those of its        *)
(* caveats that are the caveat of the last-seen value of a required key.    *)
(***************************************************************************)
\* the value of the last caveat of the key in m
LastValue(m, key) ==
    LET at == {i \in 1..Len(m.caveats) : StartsWith(m.caveats[i], <<key, " = ">>)}
        last == CHOOSE i \in at : \A j \in at : j <= i
    IN  SubSeq(m.caveats[last], 3, Len(m.caveats[last]))

LastCaveats(m) ==
    {<<key, " = ">> \o LastValue(m, key) :
        key \in {k \in {"payment_hash", "expiration", "scope"} : ~Absent(m, k)}}

SignatureVerifies(m) ==
    LET IsLast(c) == c \in LastCaveats(m)
    IN  m.signature =
            [key |-> SECRET_KEY, chain |-> <<m.identifier>> \o SelectSeq(m.caveats, IsLast)]

HasDuplicateKey(m) ==
    \E key \in {"payment_hash", "expiration", "scope"} : Cardinality(ValuesOf(m, key)) >= 2

LastExpiry(m) == InstantOfText[LastValue(m, "expiration")[1]]

C17_LastSeenValueWins ==
    \A r \in Slots : PresentsToken(r) =>
        LET m == TokenOf(r)
        IN  ( /\ Len(m.caveats) > 1
              /\ HasDuplicateKey(m)
              /\ KeysThat(AbsentOrEmpty, m) = <<>>
              /\ SignatureVerifies(m) )
            => /\ reqs[r].pc = "await_verify_payment" \/ Len(reqs[r].queries) = 1
               /\ \A i \in 1..Len(reqs[r].queries) :
                      reqs[r].queries[i].payment_hash = LastValue(m, "payment_hash")
               /\ Done(r) =>
                      ( Authenticated(r) <=>
                           /\ AnsweredPaid(r)
                           /\ now <= LastExpiry(m)
                           /\ LastValue(m, "scope") = reqs[r].path )

\* a token with two scope caveats of different values, authenticated for the
\* path of the last one
C17_Witness ==
    \E r \in Slots :
        /\ PresentsToken(r)
        /\ Cardinality(ValuesOf(TokenOf(r), "scope")) = 2
        /\ LastValue(TokenOf(r), "scope") = reqs[r].path
        /\ Authenticated(r)

(***************************************************************************)
(* C19: a holder cannot widen an issued token by appending caveats. A token *)
(* whose signature is the valid chain over all its caveats and that carries *)
(* a caveat besides those of the last-seen values of the three keys is      *)
(* never authenticated: it is denied with 401 "Invalid macaroon             *)
(* signature.". And whatever is added to an issued token, it is             *)
(* authenticated only for the path of its scope and not after its           *)
(* expiration.                                                              *)
(***************************************************************************)
HasFurtherCaveat(m) == \E i \in 1..Len(m.caveats) : m.caveats[i] \notin LastCaveats(m)

\* the issued tokens with the identifier of m
IssuedAs(m) ==
    {Deserialize(c.macaroon) : c \in {d \in issued : Deserialize(d.macaroon).identifier = m.identifier}}

C19_NoWidening ==
    \A r \in Slots : PresentsToken(r) =>
        LET m == TokenOf(r)
        IN  /\ ( /\ ValidlySigned(m)
                 /\ HasFurtherCaveat(m)
                 /\ KeysThat(AbsentOrEmpty, m) = <<>> )
               => /\ Denied(r, 401, "Invalid macaroon signature.")
                  /\ reqs[r].queries = <<>>
            /\ Authenticated(r) =>
                   \A m0 \in IssuedAs(m) :
                       /\ reqs[r].path = ValueOf(m0, "scope")
                       /\ now <= ExpiryOf(m0)

\* a later expiration appended, with its signature, to a settled token, and
\* presented after the expiration of the token as issued and before the later one
C19_Witness ==
    \E r \in Slots : \E i \in 1..Len(invoices) :
        /\ PresentsToken(r)
        /\ ValidlySigned(TokenOf(r))
        /\ Len(TokenOf(r).caveats) = 4
        /\ StartsWith(TokenOf(r).caveats[4], <<"expiration", " = ">>)
        /\ now <= LastExpiry(TokenOf(r))
        /\ \E m0 \in IssuedAs(TokenOf(r)) :
               ValueOf(m0, "scope") = reqs[r].path /\ now > ExpiryOf(m0)
        /\ invoices[i].paid
        /\ invoices[i].payment_hash = LastValue(TokenOf(r), "payment_hash")
        /\ Denied(r, 401, "Invalid macaroon signature.")

(***************************************************************************)
(* C18: a provider that never answers cannot hold a request forever. Every  *)
(* request that was received completes, with one outcome: authenticated, a  *)
(* challenge, a denial or an error.                                         *)
(***************************************************************************)
Completed(r) ==
    /\ Done(r)
    /\ \/ reqs[r].outcome.kind = "return"
       \/ reqs[r].outcome.kind = "HTTPException"
       \/ reqs[r].outcome.kind = "unhandled"

C18_EveryRequestCompletes ==
    \A r \in Slots : (reqs[r].pc # "idle") ~> Completed(r)

====
